---- MODULE Spec2Model ----
(***************************************************************************)
(* Model of the mastering orchestrator (composables/useMastering.js): the  *)
(* track registry, the stage executor (analyzeTrack, masterTrack), the     *)
(* batch scheduler (analyzeAll, masterAll) and the single-track variants.  *)
(*                                                                         *)
(* JavaScript runs one handler at a time: an action of this model is one   *)
(* run-to-completion step, from a facade call or from the settlement of a  *)
(* remote call up to the next await on a promise that is still pending.    *)
(* Optional values are encoded as sequences: <<>> is null/undefined and    *)
(* <<v>> is the value v.  Track ids are integers; a null id is NullId.     *)
(***************************************************************************)
EXTENDS Integers, Sequences, FiniteSets, TLC

\* ------------------------------------------------------------------ bounds
MaxId == 3          \* at most this many tracks are ever created
MaxFacadeId == 1    \* the same bound for the behaviours of Spec
MaxArgLen == 2      \* longest path array given to addTracks
MaxTasks == 2       \* async operations that may be in flight together
MaxOps == 2         \* async operations started in one behaviour of Spec
MaxOverlapId == 2   \* tracks created in the behaviours with several tracks

\* ------------------------------------------------------- input value sets
Null == <<>>
NullId == -1
Some(v) == <<v>>

\* paths are sequences of characters; "/" and "\\" are the separators
Paths == { <<"d", "/", "a">>, <<"d", "\\", "b">>, <<"c">> }
BatchPaths == { <<"d", "/", "a">>, <<"d", "\\", "b">> }
RefPaths == { <<"r">> }
OutPaths == { <<"o">> }
AnalysisPayloads == { "A1", "A2" }
WaveformPayloads == { "W1" }
PostPayloads == { "P1" }
Failures == { "E1" }

RECURSIVE SeqsUpTo(_, _)
SeqsUpTo(S, n) ==
    IF n = 0 THEN { <<>> }
    ELSE LET shorter == SeqsUpTo(S, n - 1)
         IN  shorter \cup { Append(q, x) : q \in { r \in shorter : Len(r) = n - 1 }, x \in S }

\* the id values a caller may pass when ids up to cap exist
IdValues(cap) == { NullId } \cup (0 .. (cap + 1))

Range(q) == { q[k] : k \in 1 .. Len(q) }
Max(S) == CHOOSE m \in S : \A k \in S : k <= m

\* ---------------------------------------------------------------- state
VARIABLES
    tracks,             \* state.tracks: the registry, a sequence of track ids
    heap,               \* the track objects ever created, indexed by id
    trackIdCounter,     \* module-level id counter
    selectedTrackId,    \* state.selectedTrackId
    referenceFile,      \* state.referenceFile
    processing,         \* state.processing
    processingMessage,  \* state.processingMessage
    processingProgress, \* state.processingProgress, the fraction <<num, den>>
    stateError,         \* state.error
    options,            \* the master options of state
    tasks,              \* the async operations in flight, one per slot
    calls,              \* remote invocations that have not settled yet
    started,            \* how many async operations have been started
    showMasterDialog    \* MainLayout: the mastering dialog is open

vars == << tracks, heap, trackIdCounter, selectedTrackId, referenceFile,
           processing, processingMessage, processingProgress, stateError,
           options, tasks, calls, started, showMasterDialog >>

registryVars == << tracks, trackIdCounter, selectedTrackId >>
batchVars == << processing, processingMessage, processingProgress, stateError >>
sessionVars == << started, showMasterDialog >>
asyncVars == << tasks, calls, sessionVars >>

\* ------------------------------------------------------------- messages
\* a template string is modelled by its template and the values put in it
NoMessage == [tpl |-> "", i |-> 0, n |-> 0, name |-> <<>>]
AnalyzingOf(i, n) == [tpl |-> "Analyzing ${i} of ${n}...", i |-> i, n |-> n, name |-> <<>>]
MasteringOf(i, n, name) == [tpl |-> "Mastering ${i} of ${n}: ${name}", i |-> i, n |-> n, name |-> name]
AnalyzingName(name) == [tpl |-> "Analyzing ${name}...", i |-> 0, n |-> 0, name |-> name]
MasteringName(name) == [tpl |-> "Mastering ${name}...", i |-> 0, n |-> 0, name |-> name]

\* variant of Fraction that counts the steps from 0: (i / N) * 100
FractionFromZero(k, n) == << (k - 1) * 100, n >>

\* ((i + 1) / N) * 100 kept as the exact fraction (i + 1) * 100 over N
Fraction(k, n) == << k * 100, n >>
Zero == << 0, 1 >>
FracLeq(a, b) == a[1] * b[2] <= b[1] * a[2]
FracEq(a, b) == a[1] * b[2] = b[1] * a[2]

\* --------------------------------------------------------- track objects
\* p.split(sep).pop(): the part of p after its last sep
LastSegment(p, sep) ==
    LET at == { k \in 1 .. Len(p) : p[k] = sep }
    IN  IF at = {} THEN p ELSE SubSeq(p, Max(at) + 1, Len(p))

TrackName(p) == LastSegment(LastSegment(p, "/"), "\\")

NewTrack(id, p) ==
    [ id |-> id, path |-> p, name |-> TrackName(p), status |-> "idle",
      analysis |-> Null, waveform |-> Null, result |-> Null, error |-> Null,
      postAnalysis |-> Null, postWaveform |-> Null ]

Statuses == { "idle", "analyzing", "analyzed", "mastering", "done", "error" }

\* variant of HasPath that looks at the first track only
HasPathFirstOnly(trks, h, p) == Len(trks) > 0 /\ h[trks[1]].path = p

\* state.tracks.some((t) => t.path === p)
HasPath(trks, h, p) == \E k \in 1 .. Len(trks) : h[trks[k]].path = p

\* state.tracks.findIndex((t) => t.id === id), 0 when there is none
FindIndex(trks, id) ==
    LET at == { k \in 1 .. Len(trks) : trks[k] = id }
    IN  IF at = {} THEN 0 ELSE CHOOSE k \in at : \A j \in at : k <= j

\* variant of Splice without the delete count: arr.splice(idx)
SpliceRest(q, idx) == SubSeq(q, 1, idx - 1)

\* arr.splice(idx, 1)
Splice(q, idx) == SubSeq(q, 1, idx - 1) \o SubSeq(q, idx + 1, Len(q))

\* !state.selectedTrackId: null and 0 are the falsy id values
Falsy(id) == id = NullId \/ id = 0

\* the computed selectedTrack: the track with the selected id, or null
selectedTrack ==
    LET k == FindIndex(tracks, selectedTrackId)
    IN  IF k = 0 THEN NullId ELSE tracks[k]

hasTracks == Len(tracks) > 0
allAnalyzed ==
    /\ Len(tracks) > 0
    /\ \A k \in 1 .. Len(tracks) : heap[tracks[k]].status \notin { "idle", "analyzing" }

\* variant of hasAnyResult that also counts tracks removed from the registry
hasAnyResultEver == \E t \in 1 .. Len(heap) : heap[t].status = "done"

hasAnyResult == \E k \in 1 .. Len(tracks) : heap[tracks[k]].status = "done"

\* ------------------------------------------------------------------ Init
NoTask ==
    [ kind |-> "none", pc |-> "idle", targets |-> <<>>, i |-> 0,
      gotAnalysis |-> Null, gotWaveform |-> Null,
      attempts |-> <<>>, failed |-> {}, progress |-> <<>>, requests |-> <<>>,
      before |-> << Null, Null >> ]

DefaultOptions ==
    [ selectedBackend |-> "auto", selectedPreset |-> "streaming",
      selectedProvider |-> "ollama", bitDepth |-> 24, outputFormat |-> "wav",
      targetLufs |-> -14, noLimiter |-> FALSE ]

Init ==
    /\ tracks = <<>>
    /\ heap = <<>>
    /\ trackIdCounter = 0
    /\ selectedTrackId = NullId
    /\ referenceFile = Null
    /\ processing = FALSE
    /\ processingMessage = NoMessage
    /\ processingProgress = Zero
    /\ stateError = Null
    /\ options = DefaultOptions
    /\ tasks = [ s \in 1 .. MaxTasks |-> NoTask ]
    /\ calls = {}
    /\ started = 0
    /\ showMasterDialog = FALSE

\* ------------------------------------------------------- track registry
\* variant of AddLoop in which importing a known path again resets its track
RECURSIVE AddLoopReimport(_, _, _, _)
AddLoopReimport(ps, trks, h, ctr) ==
    IF ps = <<>> THEN [ tracks |-> trks, heap |-> h, counter |-> ctr ]
    ELSE IF HasPath(trks, h, Head(ps))
    THEN LET t == CHOOSE x \in Range(trks) : h[x].path = Head(ps)
         IN  AddLoopReimport(Tail(ps), trks, [ h EXCEPT ![t] = NewTrack(t, Head(ps)) ], ctr)
    ELSE AddLoopReimport(Tail(ps), Append(trks, ctr + 1),
                         Append(h, NewTrack(ctr + 1, Head(ps))), ctr + 1)

\* variant of AddLoop that puts a new track in front: unshift for push
RECURSIVE AddLoopFront(_, _, _, _)
AddLoopFront(ps, trks, h, ctr) ==
    IF ps = <<>> THEN [ tracks |-> trks, heap |-> h, counter |-> ctr ]
    ELSE IF HasPath(trks, h, Head(ps)) THEN AddLoopFront(Tail(ps), trks, h, ctr)
    ELSE AddLoopFront(Tail(ps), << ctr + 1 >> \o trks,
                      Append(h, NewTrack(ctr + 1, Head(ps))), ctr + 1)

\* the for loop of addTracks over newPaths
RECURSIVE AddLoop(_, _, _, _)
AddLoop(ps, trks, h, ctr) ==
    IF ps = <<>> THEN [ tracks |-> trks, heap |-> h, counter |-> ctr ]
    ELSE IF HasPath(trks, h, Head(ps)) THEN AddLoop(Tail(ps), trks, h, ctr)
    ELSE AddLoop(Tail(ps), Append(trks, ctr + 1),
                 Append(h, NewTrack(ctr + 1, Head(ps))), ctr + 1)

addTracks(newPaths, cap) ==
    LET r == AddLoop(newPaths, tracks, heap, trackIdCounter)
    IN  /\ r.counter <= cap
        /\ tracks' = r.tracks
        /\ heap' = r.heap
        /\ trackIdCounter' = r.counter
        /\ selectedTrackId' =
               IF Falsy(selectedTrackId) /\ Len(r.tracks) > 0
               THEN r.tracks[1] ELSE selectedTrackId
        /\ UNCHANGED << referenceFile, batchVars, options, asyncVars >>

\* addTracks called with an array of paths
AddTracksArray(P, cap) == \E ps \in SeqsUpTo(P, MaxArgLen) : addTracks(ps, cap)

\* addTracks called with one path that is not an array: newPaths = [paths]
AddTracksSingle(P, cap) == \E p \in P : addTracks(<< p >>, cap)

\* variant of removeTrack that leaves the selection alone
removeTrackKeepSelection(id) ==
    LET idx == FindIndex(tracks, id)
    IN  /\ tracks' = IF idx # 0 THEN Splice(tracks, idx) ELSE tracks
        /\ UNCHANGED << selectedTrackId, heap, trackIdCounter, referenceFile,
                        batchVars, options, asyncVars >>

\* variant of removeTrack that also takes the track out of the tracks a
\* running batch operation has still to attempt
removeTrackDropsTarget(id) ==
    LET idx == FindIndex(tracks, id)
        after == IF idx # 0 THEN Splice(tracks, idx) ELSE tracks
        Other(t) == t # id
        Rest(tk) == SubSeq(tk.targets, 1, tk.i) \o
                    SelectSeq(SubSeq(tk.targets, tk.i + 1, Len(tk.targets)), Other)
    IN  /\ tracks' = after
        /\ selectedTrackId' =
               IF selectedTrackId = id
               THEN (IF Len(after) > 0 THEN after[1] ELSE NullId)
               ELSE selectedTrackId
        /\ tasks' = [ s \in DOMAIN tasks |->
                        IF tasks[s].kind \in { "analyzeAll", "masterAll" }
                        THEN [ tasks[s] EXCEPT !.targets = Rest(tasks[s]) ]
                        ELSE tasks[s] ]
        /\ UNCHANGED << heap, trackIdCounter, referenceFile, batchVars, options,
                        calls, sessionVars >>

removeTrack(id) ==
    LET idx == FindIndex(tracks, id)
        after == IF idx # 0 THEN Splice(tracks, idx) ELSE tracks
    IN  /\ tracks' = after
        /\ selectedTrackId' =
               IF selectedTrackId = id
               THEN (IF Len(after) > 0 THEN after[1] ELSE NullId)
               ELSE selectedTrackId
        /\ UNCHANGED << heap, trackIdCounter, referenceFile, batchVars, options, asyncVars >>

RemoveTrack(cap) == \E id \in IdValues(cap) : removeTrack(id)

selectTrack(id) ==
    /\ selectedTrackId' = id
    /\ UNCHANGED << tracks, heap, trackIdCounter, referenceFile, batchVars, options, asyncVars >>

SelectTrack(cap) == \E id \in IdValues(cap) : selectTrack(id)

setReferenceFile(path) ==
    /\ referenceFile' = path
    /\ UNCHANGED << registryVars, heap, batchVars, options, asyncVars >>

SetReferenceFile == \E p \in { Null } \cup { Some(r) : r \in RefPaths } : setReferenceFile(p)

\* variant of clearAll that also resets the batch descriptors
clearAllResetsBatch ==
    /\ tracks' = <<>>
    /\ selectedTrackId' = NullId
    /\ referenceFile' = Null
    /\ stateError' = Null
    /\ processing' = FALSE
    /\ processingMessage' = NoMessage
    /\ processingProgress' = Zero
    /\ UNCHANGED << heap, trackIdCounter, options, asyncVars >>

\* variant of clearAll that also starts the id counter again
clearAllResetsCounter ==
    /\ tracks' = <<>>
    /\ selectedTrackId' = NullId
    /\ referenceFile' = Null
    /\ stateError' = Null
    /\ trackIdCounter' = 0
    /\ UNCHANGED << heap, processing, processingMessage,
                    processingProgress, options, asyncVars >>

clearAll ==
    /\ tracks' = <<>>
    /\ selectedTrackId' = NullId
    /\ referenceFile' = Null
    /\ stateError' = Null
    /\ UNCHANGED << heap, trackIdCounter, processing, processingMessage,
                    processingProgress, options, asyncVars >>

\* the master options are written by the mastering dialog: a backend card
\* sets selectedBackend, the provider select (shown for the ai backend)
\* sets selectedProvider, a preset card sets selectedPreset and targetLufs,
\* and the inputs below set targetLufs, bitDepth, outputFormat and noLimiter
Backends == { "auto", "ai", "matchering" }
Providers == { "ollama", "keyhanstudio", "openai", "anthropic" }
Presets ==
    { [ name |-> "streaming", target_lufs |-> -14 ], [ name |-> "cd", target_lufs |-> -9 ] }
LufsValues == { -14, -9 }
BitDepths == { 16, 24, 32 }
OutputFormats == { "wav", "flac", "mp3" }
optionsFrame == UNCHANGED << registryVars, heap, referenceFile, batchVars, asyncVars >>

SelectBackend ==
    \E b \in Backends :
        /\ options' = [ options EXCEPT !.selectedBackend = b ]
        /\ optionsFrame

SelectProvider ==
    /\ options.selectedBackend = "ai"
    /\ \E p \in Providers :
         /\ options' = [ options EXCEPT !.selectedProvider = p ]
         /\ optionsFrame

SelectPreset ==
    \E p \in Presets :
        /\ options' = [ options EXCEPT !.selectedPreset = p.name,
                                       !.targetLufs = p.target_lufs ]
        /\ optionsFrame

SetTargetLufs ==
    \E v \in LufsValues :
        /\ options' = [ options EXCEPT !.targetLufs = v ]
        /\ optionsFrame

SetBitDepth ==
    \E v \in BitDepths :
        /\ options' = [ options EXCEPT !.bitDepth = v ]
        /\ optionsFrame

SetOutputFormat ==
    \E v \in OutputFormats :
        /\ options' = [ options EXCEPT !.outputFormat = v ]
        /\ optionsFrame

SetNoLimiter ==
    \E v \in BOOLEAN :
        /\ options' = [ options EXCEPT !.noLimiter = v ]
        /\ optionsFrame

\* loadConfig: get_config is invoked and, when it resolves with a config
\* that has a non-empty ai.default_provider, selectedProvider becomes that
\* provider; a rejection is logged only.  ConfigProviders are the values of
\* config?.ai?.default_provider: Null when it is missing, "" or a provider.
ConfigProviders == { Null, Some("") } \cup { Some(p) : p \in Providers }
ConfigCalls == { c \in calls : c.cmd = "get_config" }
configFrame == UNCHANGED << registryVars, heap, referenceFile, batchVars, tasks, sessionVars >>

LoadConfig ==
    /\ ConfigCalls = {}
    /\ calls' = calls \cup
           { [ task |-> 0, track |-> NullId, cmd |-> "get_config", path |-> <<>>,
               numPoints |-> 0, request |-> Null, awaited |-> TRUE ] }
    /\ UNCHANGED options
    /\ configFrame

LoadConfigResolves ==
    \E c \in ConfigCalls, d \in ConfigProviders :
        /\ calls' = calls \ { c }
        /\ options' = IF d # Null /\ d # Some("")
                       THEN [ options EXCEPT !.selectedProvider = d[1] ]
                       ELSE options
        /\ configFrame

LoadConfigRejects ==
    \E c \in ConfigCalls :
        /\ calls' = calls \ { c }
        /\ UNCHANGED options
        /\ configFrame

\* setReferenceFile with any argument, the empty string included
RefArgs == { Null, Some(<<>>) } \cup { Some(r) : r \in RefPaths }
SetReferenceArg == \E p \in RefArgs : setReferenceFile(p)

\* ------------------------------------------------------ request builder
\* variant of v || null that lets the empty string through
OrNullKeepsEmpty(v) == v

\* v || null: null, undefined and the empty string give null
OrNull(v) == IF v = Null \/ v = Some(<<>>) THEN Null ELSE v

\* variant of buildRequest that passes the provider on for every backend
buildRequestAlwaysProvider(track, outputPath) ==
    [ input_path |-> track.path,
      output_path |-> OrNull(outputPath),
      reference_path |-> OrNull(referenceFile),
      backend |-> options.selectedBackend,
      ai_provider |-> Some(options.selectedProvider),
      bit_depth |-> options.bitDepth,
      format |-> options.outputFormat,
      target_lufs |-> options.targetLufs,
      preset |-> options.selectedPreset,
      no_limiter |-> options.noLimiter ]

buildRequest(track, outputPath) ==
    [ input_path |-> track.path,
      output_path |-> OrNull(outputPath),
      reference_path |-> OrNull(referenceFile),
      backend |-> options.selectedBackend,
      ai_provider |-> IF options.selectedBackend = "ai"
                      THEN Some(options.selectedProvider) ELSE Null,
      bit_depth |-> options.bitDepth,
      format |-> options.outputFormat,
      target_lufs |-> options.targetLufs,
      preset |-> options.selectedPreset,
      no_limiter |-> options.noLimiter ]

\* --------------------------------------------------------- remote calls
\* invoke(cmd, args): a call that stays outstanding until the engine settles
\* it; awaited is FALSE once no continuation waits for its outcome any more
Invoke(s, t, cmd, path, request) ==
    [ task |-> s, track |-> t, cmd |-> cmd, path |-> path,
      numPoints |-> IF cmd = "get_waveform_data" THEN 2000 ELSE 0,
      request |-> request, awaited |-> TRUE ]

\* what master_file may resolve with
MasterResults ==
    [ output_path : OutPaths, post_analysis : { Null } \cup { Some(x) : x \in PostPayloads } ]

\* ------------------------------------------------------- stage executor
\* The operators below work on a record m of the values a handler has
\* produced so far (heap, calls, the task record of the running operation
\* and the batch descriptors); Commit makes them the next state.
Current(s) ==
    [ heap |-> heap, calls |-> calls, task |-> tasks[s],
      processing |-> processing, message |-> processingMessage,
      progress |-> processingProgress ]

Commit(m, s) ==
    /\ heap' = m.heap
    /\ calls' = m.calls
    /\ tasks' = [ tasks EXCEPT ![s] = m.task ]
    /\ processing' = m.processing
    /\ processingMessage' = m.message
    /\ processingProgress' = m.progress

\* variant of BeginAnalyze that leaves the error of the earlier attempt
BeginAnalyzeKeepsError(m, s, t) ==
    [ m EXCEPT
        !.heap = [ m.heap EXCEPT ![t].status = "analyzing" ],
        !.calls = m.calls \cup
            { Invoke(s, t, "analyze_file", m.heap[t].path, Null),
              Invoke(s, t, "get_waveform_data", m.heap[t].path, Null) },
        !.task = [ m.task EXCEPT
            !.pc = "awaitAnalyze", !.gotAnalysis = Null, !.gotWaveform = Null,
            !.attempts = Append(m.task.attempts, t),
            !.before = << m.heap[t].analysis, m.heap[t].waveform >> ] ]

\* analyzeTrack up to its await: status and error are written and the two
\* remote calls are issued together (Promise.all over both invocations)
BeginAnalyze(m, s, t) ==
    [ m EXCEPT
        !.heap = [ m.heap EXCEPT ![t].status = "analyzing", ![t].error = Null ],
        !.calls = m.calls \cup
            { Invoke(s, t, "analyze_file", m.heap[t].path, Null),
              Invoke(s, t, "get_waveform_data", m.heap[t].path, Null) },
        !.task = [ m.task EXCEPT
            !.pc = "awaitAnalyze", !.gotAnalysis = Null, !.gotWaveform = Null,
            !.attempts = Append(m.task.attempts, t),
            !.before = << m.heap[t].analysis, m.heap[t].waveform >> ] ]

\* variant of BeginMaster that leaves the error of the earlier attempt
BeginMasterKeepsError(m, s, t, outputPath) ==
    LET h == [ m.heap EXCEPT ![t].status = "mastering" ]
        request == buildRequest(h[t], outputPath)
    IN  [ m EXCEPT
            !.heap = h,
            !.calls = m.calls \cup { Invoke(s, t, "master_file", <<>>, Some(request)) },
            !.task = [ m.task EXCEPT
                !.pc = "awaitMaster",
                !.attempts = Append(m.task.attempts, t),
                !.requests = Append(m.task.requests, request) ] ]

\* masterTrack up to its await on master_file
BeginMaster(m, s, t, outputPath) ==
    LET h == [ m.heap EXCEPT ![t].status = "mastering", ![t].error = Null ]
        request == buildRequest(h[t], outputPath)
    IN  [ m EXCEPT
            !.heap = h,
            !.calls = m.calls \cup { Invoke(s, t, "master_file", <<>>, Some(request)) },
            !.task = [ m.task EXCEPT
                !.pc = "awaitMaster",
                !.attempts = Append(m.task.attempts, t),
                !.requests = Append(m.task.requests, request) ] ]

\* ------------------------------------------------------ batch scheduler
IsBatch(kind) == kind \in { "analyzeAll", "masterAll" }

\* variant of FinishBatch that leaves message and progress as they are
FinishBatchKeepsDescriptors(m) ==
    [ m EXCEPT !.processing = FALSE, !.task = NoTask ]

\* the statements after the for loop of analyzeAll / masterAll
FinishBatch(m) ==
    [ m EXCEPT
        !.processing = FALSE, !.message = NoMessage, !.progress = Zero,
        !.task = NoTask ]

\* variant of the statements after the await of analyzeSelected /
\* masterSelected that resets the progress value as a batch run does
FinishSelectedResetsProgress(m) ==
    [ m EXCEPT
        !.processing = FALSE, !.message = NoMessage, !.progress = Zero,
        !.task = NoTask ]

\* the statements after the await of analyzeSelected / masterSelected
FinishSelected(m) ==
    [ m EXCEPT !.processing = FALSE, !.message = NoMessage, !.task = NoTask ]

\* one iteration of the for loop: message, progress, then the stage call
Iterate(m, s) ==
    LET n == Len(m.task.targets)
        k == m.task.i + 1
        t == m.task.targets[k]
        m1 == [ m EXCEPT
                  !.message = IF m.task.kind = "analyzeAll"
                              THEN AnalyzingOf(k, n)
                              ELSE MasteringOf(k, n, m.heap[t].name),
                  !.progress = Fraction(k, n),
                  !.task = [ m.task EXCEPT
                               !.i = k,
                               !.progress = Append(m.task.progress, Fraction(k, n)) ] ]
    IN  IF m.task.kind = "analyzeAll"
        THEN BeginAnalyze(m1, s, t)
        ELSE BeginMaster(m1, s, t, Null)

\* variant of Continue that filters the registry again before every
\* iteration instead of using the pending set taken at invocation
ContinueLive(m, s) ==
    IF IsBatch(m.task.kind)
    THEN LET Eligible(t) ==
                 /\ t \notin Range(m.task.attempts)
                 /\ m.heap[t].status \in
                        (IF m.task.kind = "analyzeAll"
                         THEN { "idle", "error" } ELSE { "analyzed", "error" })
             live == SubSeq(m.task.targets, 1, m.task.i) \o SelectSeq(tracks, Eligible)
             m1 == [ m EXCEPT !.task = [ m.task EXCEPT !.targets = live ] ]
         IN  IF m.task.i < Len(live) THEN Iterate(m1, s) ELSE FinishBatch(m1)
    ELSE IF m.task.kind \in { "analyzeSelected", "masterSelected" }
    THEN FinishSelected(m)
    ELSE [ m EXCEPT !.task = NoTask ]

\* where the operation of slot s goes on once its stage call has returned
Continue(m, s) ==
    IF IsBatch(m.task.kind)
    THEN IF m.task.i < Len(m.task.targets) THEN Iterate(m, s) ELSE FinishBatch(m)
    ELSE IF m.task.kind \in { "analyzeSelected", "masterSelected" }
    THEN FinishSelected(m)
    ELSE [ m EXCEPT !.task = NoTask ]

\* a slot is free when no operation runs in it and none of its calls is left
FreeSlots ==
    { s \in 1 .. MaxTasks : tasks[s].kind = "none" /\ \A c \in calls : c.task # s }
NoneInFlight == \A s \in 1 .. MaxTasks : tasks[s].kind = "none"

\* variant of PendingAnalyze without the status filter
PendingAnalyzeUnfiltered == tracks

\* state.tracks.filter((t) => t.status === "idle" || t.status === "error")
PendingAnalyze ==
    LET Test(t) == heap[t].status \in { "idle", "error" } IN SelectSeq(tracks, Test)

\* state.tracks.filter((t) => t.status === "analyzed" || t.status === "error")
PendingMaster ==
    LET Test(t) == heap[t].status \in { "analyzed", "error" } IN SelectSeq(tracks, Test)

StartBatch(s, kind, pending) ==
    LET m == [ Current(s) EXCEPT
                 !.processing = TRUE,
                 !.task = [ NoTask EXCEPT !.kind = kind, !.targets = pending ] ]
    IN  /\ stateError' = Null
        /\ Commit(Continue(m, s), s)
        /\ UNCHANGED << registryVars, referenceFile, options >>

analyzeAll(s) == StartBatch(s, "analyzeAll", PendingAnalyze)
masterAll(s) == StartBatch(s, "masterAll", PendingMaster)

analyzeSelected(s) ==
    LET t == selectedTrack IN
    IF t = NullId THEN UNCHANGED << registryVars, heap, referenceFile, batchVars, options, tasks, calls >>
    ELSE LET m == [ Current(s) EXCEPT
                      !.processing = TRUE,
                      !.message = AnalyzingName(heap[t].name),
                      !.task = [ NoTask EXCEPT !.kind = "analyzeSelected",
                                               !.targets = << t >>, !.i = 1 ] ]
         IN  /\ Commit(BeginAnalyze(m, s, t), s)
             /\ UNCHANGED << registryVars, referenceFile, options, stateError >>

masterSelected(s, outputPath) ==
    LET t == selectedTrack IN
    IF t = NullId THEN UNCHANGED << registryVars, heap, referenceFile, batchVars, options, tasks, calls >>
    ELSE LET m == [ Current(s) EXCEPT
                      !.processing = TRUE,
                      !.message = MasteringName(heap[t].name),
                      !.task = [ NoTask EXCEPT !.kind = "masterSelected",
                                               !.targets = << t >>, !.i = 1 ] ]
         IN  /\ Commit(BeginMaster(m, s, t, outputPath), s)
             /\ UNCHANGED << registryVars, referenceFile, options, stateError >>

\* analyzeTrack / masterTrack called directly through the facade
analyzeTrack(s, t) ==
    LET m == [ Current(s) EXCEPT
                 !.task = [ NoTask EXCEPT !.kind = "analyzeTrack",
                                          !.targets = << t >>, !.i = 1 ] ]
    IN  /\ Commit(BeginAnalyze(m, s, t), s)
        /\ UNCHANGED << registryVars, referenceFile, options, stateError >>

masterTrack(s, t, outputPath) ==
    LET m == [ Current(s) EXCEPT
                 !.task = [ NoTask EXCEPT !.kind = "masterTrack",
                                          !.targets = << t >>, !.i = 1 ] ]
    IN  /\ Commit(BeginMaster(m, s, t, outputPath), s)
        /\ UNCHANGED << registryVars, referenceFile, options, stateError >>

\* ----------------------------------------------- settlement of the calls
Awaited(s, cmd) == { c \in calls : c.task = s /\ c.cmd = cmd /\ c.awaited }
Target(s) == tasks[s].targets[tasks[s].i]
Settled(m, c) == [ m EXCEPT !.calls = m.calls \ { c } ]
asyncFrame == UNCHANGED << registryVars, referenceFile, options, stateError, sessionVars >>

\* variant of AnalyzeSucceeds that does not store the waveform
AnalyzeSucceedsDropsWaveform(m, s, t, analysis, waveform) ==
    Continue([ m EXCEPT
        !.heap = [ m.heap EXCEPT ![t].analysis = Some(analysis),
                                 ![t].status = "analyzed" ] ], s)

\* try branch of analyzeTrack, run when Promise.all has both values
AnalyzeSucceeds(m, s, t, analysis, waveform) ==
    Continue([ m EXCEPT
        !.heap = [ m.heap EXCEPT ![t].analysis = Some(analysis),
                                 ![t].waveform = Some(waveform),
                                 ![t].status = "analyzed" ] ], s)

\* variant of AnalyzeFails in which the failure ends the whole operation
AnalyzeFailsAborts(m, s, t, e) ==
    FinishBatch([ m EXCEPT
        !.heap = [ m.heap EXCEPT ![t].status = "error",
                                 ![t].error = Some(<< "Analysis failed: ", e >>) ],
        !.calls = { IF c.task = s /\ c.awaited THEN [ c EXCEPT !.awaited = FALSE ] ELSE c
                    : c \in m.calls },
        !.task = [ m.task EXCEPT !.failed = m.task.failed \cup { t } ] ])

\* variant of AnalyzeFails that keeps the payload that had already arrived
AnalyzeFailsPartial(m, s, t, e) ==
    Continue([ m EXCEPT
        !.heap = [ m.heap EXCEPT
                     ![t].status = "error",
                     ![t].error = Some(<< "Analysis failed: ", e >>),
                     ![t].analysis = IF m.task.gotAnalysis # Null
                                     THEN m.task.gotAnalysis ELSE m.heap[t].analysis,
                     ![t].waveform = IF m.task.gotWaveform # Null
                                     THEN m.task.gotWaveform ELSE m.heap[t].waveform ],
        !.calls = { IF c.task = s /\ c.awaited THEN [ c EXCEPT !.awaited = FALSE ] ELSE c
                    : c \in m.calls },
        !.task = [ m.task EXCEPT !.failed = m.task.failed \cup { t } ] ], s)

\* catch branch of analyzeTrack: Promise.all rejects with the first
\* rejection; the other invocation, if still outstanding, is left behind
AnalyzeFails(m, s, t, e) ==
    Continue([ m EXCEPT
        !.heap = [ m.heap EXCEPT ![t].status = "error",
                                 ![t].error = Some(<< "Analysis failed: ", e >>) ],
        !.calls = { IF c.task = s /\ c.awaited THEN [ c EXCEPT !.awaited = FALSE ] ELSE c
                    : c \in m.calls },
        !.task = [ m.task EXCEPT !.failed = m.task.failed \cup { t } ] ], s)

AnalyzeFileResolves(s) ==
    /\ tasks[s].pc = "awaitAnalyze"
    /\ \E c \in Awaited(s, "analyze_file"), v \in AnalysisPayloads :
         LET m == Settled(Current(s), c) IN
         /\ IF tasks[s].gotWaveform # Null
            THEN Commit(AnalyzeSucceeds(m, s, c.track, v, tasks[s].gotWaveform[1]), s)
            ELSE Commit([ m EXCEPT !.task.gotAnalysis = Some(v) ], s)
         /\ asyncFrame

WaveformResolves(s) ==
    /\ tasks[s].pc = "awaitAnalyze"
    /\ \E c \in Awaited(s, "get_waveform_data"), w \in WaveformPayloads :
         LET m == Settled(Current(s), c) IN
         /\ IF tasks[s].gotAnalysis # Null
            THEN Commit(AnalyzeSucceeds(m, s, c.track, tasks[s].gotAnalysis[1], w), s)
            ELSE Commit([ m EXCEPT !.task.gotWaveform = Some(w) ], s)
         /\ asyncFrame

AnalyzeCallRejects(s) ==
    /\ tasks[s].pc = "awaitAnalyze"
    /\ \E c \in Awaited(s, "analyze_file") \cup Awaited(s, "get_waveform_data"),
          e \in Failures :
         /\ Commit(AnalyzeFails(Settled(Current(s), c), s, c.track, e), s)
         /\ asyncFrame

\* an invocation nobody waits for any more resolves or rejects
OrphanSettles ==
    /\ \E c \in calls :
         /\ ~ c.awaited
         /\ calls' = calls \ { c }
    /\ UNCHANGED << registryVars, heap, referenceFile, batchVars, options, tasks, sessionVars >>

\* variant of MasterResolves that marks the track done without its result
MasterResolvesDropsResult(s) ==
    /\ tasks[s].pc = "awaitMaster"
    /\ \E c \in Awaited(s, "master_file"), result \in MasterResults :
         LET t == c.track
             m == Settled(Current(s), c)
             m1 == [ m EXCEPT !.heap = [ m.heap EXCEPT ![t].status = "done" ] ]
         IN  /\ IF result.post_analysis # Null
                THEN Commit([ m1 EXCEPT
                        !.heap = [ m1.heap EXCEPT ![t].postAnalysis = result.post_analysis ],
                        !.calls = m1.calls \cup
                            { Invoke(s, t, "get_waveform_data", result.output_path, Null) },
                        !.task = [ m1.task EXCEPT !.pc = "awaitPostWaveform" ] ], s)
                ELSE Commit(Continue(m1, s), s)
             /\ asyncFrame

MasterResolves(s) ==
    /\ tasks[s].pc = "awaitMaster"
    /\ \E c \in Awaited(s, "master_file"), result \in MasterResults :
         LET t == c.track
             m == Settled(Current(s), c)
             m1 == [ m EXCEPT !.heap = [ m.heap EXCEPT ![t].result = Some(result),
                                                        ![t].status = "done" ] ]
         IN  /\ IF result.post_analysis # Null
                THEN Commit([ m1 EXCEPT
                        !.heap = [ m1.heap EXCEPT ![t].postAnalysis = result.post_analysis ],
                        !.calls = m1.calls \cup
                            { Invoke(s, t, "get_waveform_data", result.output_path, Null) },
                        !.task = [ m1.task EXCEPT !.pc = "awaitPostWaveform" ] ], s)
                ELSE Commit(Continue(m1, s), s)
             /\ asyncFrame

\* variant of MasterRejects that also drops the outcome of earlier attempts
MasterRejectsClearsResult(s) ==
    /\ tasks[s].pc = "awaitMaster"
    /\ \E c \in Awaited(s, "master_file"), e \in Failures :
         LET t == c.track
             m == Settled(Current(s), c)
         IN  /\ Commit(Continue([ m EXCEPT
                    !.heap = [ m.heap EXCEPT ![t].status = "error",
                                 ![t].error = Some(<< "Mastering failed: ", e >>),
                                 ![t].result = Null ],
                    !.task = [ m.task EXCEPT !.failed = m.task.failed \cup { t } ] ], s), s)
             /\ asyncFrame

MasterRejects(s) ==
    /\ tasks[s].pc = "awaitMaster"
    /\ \E c \in Awaited(s, "master_file"), e \in Failures :
         LET t == c.track
             m == Settled(Current(s), c)
         IN  /\ Commit(Continue([ m EXCEPT
                    !.heap = [ m.heap EXCEPT ![t].status = "error",
                                 ![t].error = Some(<< "Mastering failed: ", e >>) ],
                    !.task = [ m.task EXCEPT !.failed = m.task.failed \cup { t } ] ], s), s)
             /\ asyncFrame

PostWaveformResolves(s) ==
    /\ tasks[s].pc = "awaitPostWaveform"
    /\ \E c \in Awaited(s, "get_waveform_data"), w \in WaveformPayloads :
         LET m == Settled(Current(s), c) IN
         /\ Commit(Continue([ m EXCEPT
                !.heap = [ m.heap EXCEPT ![c.track].postWaveform = Some(w) ] ], s), s)
         /\ asyncFrame

\* variant of PostWaveformRejects in which the failure of the secondary
\* fetch reaches the outer catch of masterTrack
PostWaveformRejectsAsFailure(s) ==
    /\ tasks[s].pc = "awaitPostWaveform"
    /\ \E c \in Awaited(s, "get_waveform_data"), e \in Failures :
         LET m == Settled(Current(s), c) IN
         /\ Commit(Continue([ m EXCEPT
                !.heap = [ m.heap EXCEPT
                             ![c.track].status = "error",
                             ![c.track].error = Some(<< "Mastering failed: ", e >>) ] ], s), s)
         /\ asyncFrame

\* variant of PostWaveformRejects in which masterTrack never returns once
\* the secondary fetch has failed
PostWaveformRejectsStalls(s) ==
    /\ tasks[s].pc = "awaitPostWaveform"
    /\ \E c \in Awaited(s, "get_waveform_data") :
         /\ Commit(Settled(Current(s), c), s)
         /\ asyncFrame

\* catch (_) {}: the failure of the secondary fetch is swallowed
PostWaveformRejects(s) ==
    /\ tasks[s].pc = "awaitPostWaveform"
    /\ \E c \in Awaited(s, "get_waveform_data") :
         /\ Commit(Continue(Settled(Current(s), c), s), s)
         /\ asyncFrame

\* ------------------------------------------------------------ facade use
OutputArgs == { Null, Some(<<>>) } \cup { Some(o) : o \in OutPaths }
FirstFree == CHOOSE s \in FreeSlots : \A r \in FreeSlots : s <= r

\* an async operation is started in the first free slot; at most MaxOps
\* of them are started in one behaviour
CanStart == FreeSlots # {} /\ started < MaxOps
Counted == started' = started + 1 /\ UNCHANGED showMasterDialog

AnalyzeAll == CanStart /\ analyzeAll(FirstFree) /\ Counted
MasterAll == CanStart /\ masterAll(FirstFree) /\ Counted
AnalyzeSelected == CanStart /\ analyzeSelected(FirstFree) /\ Counted
MasterSelected == CanStart /\ Counted /\ \E o \in OutputArgs : masterSelected(FirstFree, o)
AnalyzeTrack == CanStart /\ Counted /\ \E t \in Range(tracks) : analyzeTrack(FirstFree, t)
MasterTrack ==
    CanStart /\ Counted /\ \E t \in Range(tracks), o \in OutputArgs : masterTrack(FirstFree, t, o)

AnalyzeFileResolved == \E s \in 1 .. MaxTasks : AnalyzeFileResolves(s)
WaveformResolved == \E s \in 1 .. MaxTasks : WaveformResolves(s)
AnalyzeCallRejected == \E s \in 1 .. MaxTasks : AnalyzeCallRejects(s)
MasterResolved == \E s \in 1 .. MaxTasks : MasterResolves(s)
MasterRejected == \E s \in 1 .. MaxTasks : MasterRejects(s)
PostWaveformResolved == \E s \in 1 .. MaxTasks : PostWaveformResolves(s)
PostWaveformRejected == \E s \in 1 .. MaxTasks : PostWaveformRejects(s)

\* every facade operation on the tracks and the reference file, in any
\* interleaving
Next ==
    \/ AddTracksArray(BatchPaths, MaxFacadeId)
    \/ AddTracksSingle(BatchPaths, MaxFacadeId)
    \/ RemoveTrack(MaxFacadeId)
    \/ SelectTrack(MaxFacadeId)
    \/ SetReferenceFile
    \/ clearAll
    \/ AnalyzeAll
    \/ MasterAll
    \/ AnalyzeSelected
    \/ MasterSelected
    \/ AnalyzeTrack
    \/ MasterTrack
    \/ AnalyzeFileResolved
    \/ WaveformResolved
    \/ AnalyzeCallRejected
    \/ MasterResolved
    \/ MasterRejected
    \/ PostWaveformResolved
    \/ PostWaveformRejected
    \/ OrphanSettles
Spec == Init /\ [][Next]_vars

\* analyzeAll and masterAll only, each started when the run before it has
\* returned and no invocation is outstanding any more
Quiet == NoneInFlight /\ calls = {}
SeqAnalyzeAll == Quiet /\ analyzeAll(FirstFree) /\ UNCHANGED sessionVars
SeqMasterAll ==
    /\ Quiet
    /\ masterAll(FirstFree)
    /\ showMasterDialog' = FALSE
    /\ UNCHANGED started
NextBatch ==
    \/ AddTracksSingle(Paths, MaxId)
    \/ SeqAnalyzeAll
    \/ SeqMasterAll
    \/ AnalyzeFileResolved
    \/ WaveformResolved
    \/ AnalyzeCallRejected
    \/ MasterResolved
    \/ MasterRejected
    \/ PostWaveformResolved
    \/ PostWaveformRejected
    \/ OrphanSettles
SpecBatch == Init /\ [][NextBatch]_vars

\* the registry alone: addTracks, removeTrack and clearAll
NextRegistry ==
    \/ AddTracksArray(Paths, MaxId)
    \/ AddTracksSingle(Paths, MaxId)
    \/ RemoveTrack(MaxId)
    \/ clearAll
SpecRegistry == Init /\ [][NextRegistry]_vars

\* analyzeAll and masterAll started at any moment, also while an earlier
\* run is still in flight
NextOverlap ==
    \/ AddTracksSingle(BatchPaths, MaxOverlapId)
    \/ AnalyzeAll
    \/ MasterAll
    \/ AnalyzeFileResolved
    \/ WaveformResolved
    \/ AnalyzeCallRejected
    \/ MasterResolved
    \/ MasterRejected
    \/ PostWaveformResolved
    \/ PostWaveformRejected
    \/ OrphanSettles
SpecOverlap == Init /\ [][NextOverlap]_vars

\* analyzeSelected and masterSelected only, each called when the call
\* before it has returned and no invocation is outstanding any more
SeqAnalyzeSelected == Quiet /\ analyzeSelected(FirstFree) /\ UNCHANGED sessionVars
SeqMasterSelected ==
    Quiet /\ UNCHANGED sessionVars /\ \E o \in OutputArgs : masterSelected(FirstFree, o)
NextSelected ==
    \/ AddTracksSingle(BatchPaths, MaxFacadeId)
    \/ SeqAnalyzeSelected
    \/ SeqMasterSelected
    \/ AnalyzeFileResolved
    \/ WaveformResolved
    \/ AnalyzeCallRejected
    \/ MasterResolved
    \/ MasterRejected
    \/ PostWaveformResolved
    \/ PostWaveformRejected
    \/ OrphanSettles
SpecSelected == Init /\ [][NextSelected]_vars

\* the request builder at work: masterTrack called for any track, one call
\* at a time, under every choice of reference file, backend and provider
SeqMasterTrack ==
    /\ Quiet
    /\ UNCHANGED sessionVars
    /\ \E t \in Range(tracks), o \in OutputArgs : masterTrack(FirstFree, t, o)

\* the mastering dialog at work: the options are set between the calls of
\* masterTrack, which follow one another, and the configuration is loaded
\* at any quiet moment
OptionPaths == { <<"d", "/", "a">> }
DialogReference == Quiet /\ SetReferenceArg
DialogBackend == Quiet /\ SelectBackend
DialogProvider == Quiet /\ SelectProvider
DialogPreset == Quiet /\ SelectPreset
DialogTargetLufs == Quiet /\ SetTargetLufs
DialogBitDepth == Quiet /\ SetBitDepth
DialogOutputFormat == Quiet /\ SetOutputFormat
DialogNoLimiter == Quiet /\ SetNoLimiter
QuietLoadConfig == Quiet /\ LoadConfig
NextOptions ==
    \/ AddTracksSingle(OptionPaths, MaxFacadeId)
    \/ DialogReference
    \/ DialogBackend
    \/ DialogProvider
    \/ DialogPreset
    \/ DialogTargetLufs
    \/ DialogBitDepth
    \/ DialogOutputFormat
    \/ DialogNoLimiter
    \/ QuietLoadConfig
    \/ LoadConfigResolves
    \/ LoadConfigRejects
    \/ SeqMasterTrack
    \/ MasterResolved
    \/ MasterRejected
    \/ PostWaveformResolved
    \/ PostWaveformRejected
SpecOptions == Init /\ [][NextOptions]_vars

\* a working session: tracks are added and removed at any moment while
\* analyzeAll and masterAll runs follow one another
NextSession ==
    \/ AddTracksSingle(BatchPaths, MaxOverlapId)
    \/ RemoveTrack(MaxOverlapId)
    \/ clearAll
    \/ SeqAnalyzeAll
    \/ SeqMasterAll
    \/ AnalyzeFileResolved
    \/ WaveformResolved
    \/ AnalyzeCallRejected
    \/ MasterResolved
    \/ MasterRejected
    \/ PostWaveformResolved
    \/ PostWaveformRejected
    \/ OrphanSettles
SpecSession == Init /\ [][NextSession]_vars

\* the reference file is set and cleared at any moment while analyzeAll
\* and masterAll runs follow one another
NextReference ==
    \/ AddTracksSingle(BatchPaths, MaxOverlapId)
    \/ SetReferenceFile
    \/ clearAll
    \/ SeqAnalyzeAll
    \/ SeqMasterAll
    \/ AnalyzeFileResolved
    \/ WaveformResolved
    \/ AnalyzeCallRejected
    \/ MasterResolved
    \/ MasterRejected
    \/ PostWaveformResolved
    \/ PostWaveformRejected
    \/ OrphanSettles
SpecReference == Init /\ [][NextReference]_vars

\* the registry, the selection and the reference file: every synchronous
\* operation of the facade
NextSelection ==
    \/ AddTracksArray(Paths, MaxId)
    \/ AddTracksSingle(Paths, MaxId)
    \/ RemoveTrack(MaxId)
    \/ SelectTrack(MaxId)
    \/ SetReferenceFile
    \/ clearAll
SpecSelection == Init /\ [][NextSelection]_vars

\* editing around single-track work: the registry, the selection and the
\* reference file are changed at any moment while analyzeSelected and
\* masterSelected calls follow one another
OneAnalyzeSelected == Quiet /\ AnalyzeSelected
OneMasterSelected == Quiet /\ MasterSelected
\* the select and remove events of the track list carry the id of a card
SelectListed == \E id \in Range(tracks) : selectTrack(id)
RemoveListed == \E id \in Range(tracks) : removeTrack(id)
NextEdit ==
    \/ AddTracksSingle(BatchPaths, MaxOverlapId)
    \/ RemoveListed
    \/ SelectListed
    \/ SetReferenceFile
    \/ OneAnalyzeSelected
    \/ OneMasterSelected
    \/ AnalyzeFileResolved
    \/ WaveformResolved
    \/ AnalyzeCallRejected
    \/ MasterResolved
    \/ MasterRejected
    \/ PostWaveformResolved
    \/ PostWaveformRejected
    \/ OrphanSettles
SpecEdit == Init /\ [][NextEdit]_vars

\* single-track calls next to a batch run: analyzeAll is the first call of
\* the session, analyzeSelected and masterSelected are called one at a time
\* at any moment, also while analyzeAll is in flight, and the selection is
\* changed at any moment
NoSelectedInFlight ==
    \A s \in 1 .. MaxTasks : tasks[s].kind \notin { "analyzeSelected", "masterSelected" }
BesideAnalyzeAll == started = 0 /\ AnalyzeAll
BesideAnalyzeSelected == NoSelectedInFlight /\ AnalyzeSelected
BesideMasterSelected == NoSelectedInFlight /\ MasterSelected
NextMixed ==
    \/ AddTracksSingle(BatchPaths, MaxOverlapId)
    \/ SelectTrack(MaxOverlapId)
    \/ BesideAnalyzeAll
    \/ BesideAnalyzeSelected
    \/ BesideMasterSelected
    \/ AnalyzeFileResolved
    \/ WaveformResolved
    \/ AnalyzeCallRejected
    \/ MasterResolved
    \/ MasterRejected
    \/ PostWaveformResolved
    \/ PostWaveformRejected
    \/ OrphanSettles
SpecMixed == Init /\ [][NextMixed]_vars

\* analysis and mastering of the whole list and mastering of the selected
\* track with any output path argument, one call after the other
NextOutput ==
    \/ AddTracksSingle(BatchPaths, MaxFacadeId)
    \/ SelectTrack(MaxFacadeId)
    \/ SeqAnalyzeAll
    \/ SeqMasterAll
    \/ SeqMasterSelected
    \/ AnalyzeFileResolved
    \/ WaveformResolved
    \/ AnalyzeCallRejected
    \/ MasterResolved
    \/ MasterRejected
    \/ PostWaveformResolved
    \/ PostWaveformRejected
    \/ OrphanSettles
SpecOutput == Init /\ [][NextOutput]_vars

\* one batch run at a time over up to MaxOverlapId tracks, with an engine
\* that settles every invocation: some outstanding invocation resolves or
\* rejects as long as there is one
Settle ==
    \/ AnalyzeFileResolved
    \/ WaveformResolved
    \/ AnalyzeCallRejected
    \/ MasterResolved
    \/ MasterRejected
    \/ PostWaveformResolved
    \/ PostWaveformRejected
    \/ OrphanSettles
NextLive ==
    \/ AddTracksSingle(BatchPaths, MaxOverlapId)
    \/ SeqAnalyzeAll
    \/ SeqMasterAll
    \/ AnalyzeFileResolved
    \/ WaveformResolved
    \/ AnalyzeCallRejected
    \/ MasterResolved
    \/ MasterRejected
    \/ PostWaveformResolved
    \/ PostWaveformRejected
    \/ OrphanSettles
SpecLive == Init /\ [][NextLive]_vars /\ WF_vars(Settle)

\* ------------------------------------------------- MainLayout handlers
\* the handlers of MainLayout that open and close the mastering dialog and
\* start the batch operations
dialogFrame ==
    UNCHANGED << registryVars, heap, referenceFile, batchVars, options, tasks, calls,
                 started >>

\* handleAnalyzeAll, reached from the Analyze All button and from Cmd/Ctrl+R
handleAnalyzeAll ==
    /\ hasTracks
    /\ ~ processing
    /\ FreeSlots # {}
    /\ analyzeAll(FirstFree)
    /\ UNCHANGED sessionVars

\* the Master All button: disabled unless allAnalyzed and not processing
MasterAllButton ==
    /\ allAnalyzed
    /\ ~ processing
    /\ showMasterDialog' = TRUE
    /\ dialogFrame

\* handleKeydown with Cmd/Ctrl+M
MasterShortcut ==
    /\ allAnalyzed
    /\ showMasterDialog' = TRUE
    /\ dialogFrame

\* Escape, the close button, Cancel or a click on the overlay
CloseMasterDialog ==
    /\ showMasterDialog' = FALSE
    /\ dialogFrame

\* handleMasterAll, bound to the master event of the open dialog; at most
\* MaxOps of these calls are made in one behaviour
handleMasterAll ==
    /\ showMasterDialog
    /\ CanStart
    /\ showMasterDialog' = FALSE
    /\ masterAll(FirstFree)
    /\ started' = started + 1

\* the user of the layout: files are added at any moment, Analyze All is
\* used when no run is in flight, the dialog is opened, closed and
\* confirmed at any moment
QuietAnalyzeAll == Quiet /\ handleAnalyzeAll
NextLayout ==
    \/ AddTracksSingle(BatchPaths, MaxOverlapId)
    \/ QuietAnalyzeAll
    \/ MasterAllButton
    \/ MasterShortcut
    \/ CloseMasterDialog
    \/ handleMasterAll
    \/ AnalyzeFileResolved
    \/ WaveformResolved
    \/ AnalyzeCallRejected
    \/ MasterResolved
    \/ MasterRejected
    \/ PostWaveformResolved
    \/ PostWaveformRejected
    \/ OrphanSettles
SpecLayout == Init /\ [][NextLayout]_vars

\* ================================================================ claims
Slots == 1 .. MaxTasks
Ids == 1 .. Len(heap)
InRegistry == Range(tracks)
CountStatus(ts, h, st) == Cardinality({ k \in 1 .. Len(ts) : h[ts[k]].status = st })

\* C1: no two tracks of the registry have the same path, after any sequence
\* of addTracks, removeTrack and clearAll calls.
C1_PathsUnique ==
    \A j, k \in 1 .. Len(tracks) :
        j # k => heap[tracks[j]].path # heap[tracks[k]].path

\* a path that was imported, removed and imported again: two track objects
\* carry it and only one of them is in the registry
C1_Witness ==
    \E a \in Ids, k \in 1 .. Len(tracks) :
        /\ a \notin InRegistry
        /\ heap[a].path = heap[tracks[k]].path

\* C2: after any sequence of addTracks and removeTrack calls from the empty
\* registry, selectedTrackId is null and the registry is empty, or it is the
\* id of a track in the registry.
C2_SelectionInvariant ==
    IF selectedTrackId = NullId
    THEN Len(tracks) = 0
    ELSE selectedTrackId \in InRegistry

\* the first track was removed while selected and the selection has moved
\* to the new first track
C2_Witness ==
    /\ Len(tracks) > 0
    /\ 1 \in Ids /\ 1 \notin InRegistry
    /\ selectedTrackId = tracks[1]

\* C3: in every state reachable through the facade, selectedTrackId is null
\* or the id of a track in the registry.
C3_SelectedExists == selectedTrackId = NullId \/ selectedTrackId \in InRegistry

\* C4: a track's status is one of the six values and a track enters
\* mastering only from analyzed or error.
C4_MasteringOnlyFromAnalyzedOrError ==
    [][ \A t \in Ids :
          /\ heap'[t].status \in Statuses
          /\ (heap'[t].status = "mastering" /\ heap[t].status # "mastering")
                => heap[t].status \in { "analyzed", "error" } ]_vars

\* C5: with analyzeAll and masterAll only, one run at a time, a status
\* changes only along the eight transitions of the state machine; a done
\* track keeps its status and is not taken into the pending set of a run.
StatusTransitions ==
    { << "idle", "analyzing" >>, << "error", "analyzing" >>,
      << "analyzing", "analyzed" >>, << "analyzing", "error" >>,
      << "analyzed", "mastering" >>, << "error", "mastering" >>,
      << "mastering", "done" >>, << "mastering", "error" >> }

C5_TransitionsClosed ==
    [][ \A t \in Ids :
          /\ heap'[t].status # heap[t].status
                => << heap[t].status, heap'[t].status >> \in StatusTransitions
          /\ heap[t].status = "done" =>
                /\ heap'[t].status = "done"
                /\ \A s \in Slots :
                     (tasks[s].kind = "none" /\ IsBatch(tasks'[s].kind))
                        => t \notin Range(tasks'[s].targets) ]_vars

\* an analyzeAll run is under way while a track of the registry is done
C5_Witness ==
    \E s \in Slots, t \in InRegistry :
        /\ tasks[s].kind = "analyzeAll"
        /\ heap[t].status = "done"

\* C6: a batch run in which exactly one track fails still attempts every
\* track of its pending set and completes, with N - 1 tracks analyzed (done
\* for masterAll) and one in error.
C6_FaultIsolation ==
    [][ \A s \in Slots :
          (IsBatch(tasks[s].kind) /\ tasks'[s].kind = "none") =>
            LET tk == tasks[s]
                n == Len(tk.targets)
                last == tk.targets[tk.i]
                bad == tk.failed \cup { t \in { last } : heap'[t].status = "error" }
                good == IF tk.kind = "analyzeAll" THEN "analyzed" ELSE "done"
            IN  Cardinality(bad) = 1 =>
                  /\ tk.attempts = tk.targets
                  /\ CountStatus(tk.targets, heap', good) = n - 1
                  /\ CountStatus(tk.targets, heap', "error") = 1
                  /\ processing' = FALSE ]_vars

\* nothing is in flight, and of the three tracks the second one carries
\* the error of a failed analysis and the other two are analyzed
C6_Witness ==
    /\ NoneInFlight
    /\ ~ processing
    /\ Len(tracks) = 3
    /\ heap[tracks[1]].status = "analyzed"
    /\ heap[tracks[2]].status = "error"
    /\ heap[tracks[2]].error = Some(<< "Analysis failed: ", "E1" >>)
    /\ heap[tracks[3]].status = "analyzed"

\* C7: during a batch run over N >= 1 tracks processingProgress is
\* (k / N) * 100 while the k-th track is attempted, the values written are
\* those for k = 1 .. N in this order, and it is 0 once the run has completed.
C7_ProgressSequence ==
    [][ \A s \in Slots :
          /\ IsBatch(tasks'[s].kind) =>
               LET tk == tasks'[s]
                   n == Len(tk.targets)
               IN  /\ tk.i \in 1 .. n
                   /\ FracEq(processingProgress', << tk.i * 100, n >>)
                   /\ Len(tk.progress) = tk.i
                   /\ Len(tk.attempts) = tk.i
                   /\ \A k \in 1 .. tk.i :
                        /\ FracEq(tk.progress[k], << k * 100, n >>)
                        /\ k > 1 => ~ FracLeq(tk.progress[k], tk.progress[k - 1])
          /\ (IsBatch(tasks[s].kind) /\ tasks'[s].kind = "none") =>
               /\ Len(tasks[s].progress) = Len(tasks[s].targets)
               /\ processingProgress' = Zero ]_vars

\* the second of three tracks is being attempted and the progress is 200/3
C7_Witness ==
    \E s \in Slots :
        /\ IsBatch(tasks[s].kind)
        /\ Len(tasks[s].targets) = 3
        /\ tasks[s].i = 2
        /\ FracEq(processingProgress, << 200, 3 >>)

\* C8: within one batch run the remote calls of two different tracks are
\* never outstanding together, and at most one track of the run is in
\* status analyzing or mastering.
C8_OneTrackAtATime ==
    /\ \A c, d \in calls : c.task = d.task => c.track = d.track
    /\ \A s \in Slots :
         IsBatch(tasks[s].kind) =>
           Cardinality({ k \in 1 .. Len(tasks[s].targets) :
               heap[tasks[s].targets[k]].status \in { "analyzing", "mastering" } }) <= 1

\* C9: a track leaves status analyzing only after both remote calls of its
\* analysis have completed: while one of them is outstanding the track is
\* still analyzing.
IsAnalysisCall(c) ==
    \/ c.cmd = "analyze_file"
    \/ c.cmd = "get_waveform_data" /\ c.path = heap[c.track].path

C9_LeavesAnalyzingAfterBothCalls ==
    \A c \in calls : IsAnalysisCall(c) => heap[c.track].status = "analyzing"

\* C10: analyzeTrack commits all or nothing: nothing is written while it
\* waits; on success analysis and waveform are set with status analyzed; on
\* failure status is error, error is set and both payloads are the ones the
\* track had before the attempt.
C10_AllOrNothing ==
    [][ \A s \in Slots :
          tasks[s].pc = "awaitAnalyze" =>
            LET tk == tasks[s]
                t == tk.targets[tk.i]
            IN  /\ heap[t].status = "analyzing"
                /\ heap[t].analysis = tk.before[1]
                /\ heap[t].waveform = tk.before[2]
                /\ heap'[t].status \in { "analyzing", "analyzed", "error" }
                /\ heap'[t].status = "analyzing" =>
                     /\ heap'[t].analysis = tk.before[1]
                     /\ heap'[t].waveform = tk.before[2]
                /\ heap'[t].status = "analyzed" =>
                     /\ heap'[t].analysis # Null
                     /\ heap'[t].waveform # Null
                     /\ tk.gotAnalysis # Null => heap'[t].analysis = tk.gotAnalysis
                     /\ tk.gotWaveform # Null => heap'[t].waveform = tk.gotWaveform
                     /\ heap'[t].error = Null
                /\ heap'[t].status = "error" =>
                     /\ heap'[t].error # Null
                     /\ heap'[t].analysis = tk.before[1]
                     /\ heap'[t].waveform = tk.before[2] ]_vars

\* a repeated analysis has failed and the payloads of the earlier
\* successful attempt are still in place
C10_Witness ==
    \E t \in Ids :
        /\ heap[t].status = "error"
        /\ heap[t].error = Some(<< "Analysis failed: ", "E1" >>)
        /\ heap[t].analysis # Null
        /\ heap[t].waveform # Null

\* C11: the tracks attempted by one analyzeAll (masterAll) run are the
\* registry tracks that were idle or error (analyzed or error) when the run
\* was invoked, in registry order and each once; a track added during the run
\* or not eligible at invocation is not attempted by it.
EligibleAt(kind, h, t) ==
    h[t].status \in (IF kind = "analyzeAll" THEN { "idle", "error" }
                                            ELSE { "analyzed", "error" })

C11_AttemptsAreSnapshot ==
    [][ \A s \in Slots :
          LET tk == tasks[s]
              nx == tasks'[s]
              Was(t) == EligibleAt(nx.kind, heap, t)
          IN  /\ (tk.kind = "none" /\ IsBatch(nx.kind)) =>
                    /\ nx.targets = SelectSeq(tracks, Was)
                    /\ nx.attempts = SubSeq(nx.targets, 1, 1)
              /\ (IsBatch(tk.kind) /\ IsBatch(nx.kind)) =>
                    /\ nx.targets = tk.targets
                    /\ nx.attempts = SubSeq(tk.targets, 1, nx.i)
                    /\ nx.i \in { tk.i, tk.i + 1 }
              /\ (IsBatch(tk.kind) /\ nx.kind = "none") =>
                    tk.attempts = tk.targets
              /\ IsBatch(tk.kind) =>
                    \A j, k \in 1 .. Len(tk.attempts) :
                        j # k => tk.attempts[j] # tk.attempts[k] ]_vars

\* an analyzeAll run is attempting its last track while the registry holds
\* an idle track that was added after the run was invoked
C11_Witness ==
    \E s \in Slots, t \in InRegistry :
        /\ tasks[s].kind = "analyzeAll"
        /\ tasks[s].i = Len(tasks[s].targets)
        /\ heap[t].status = "idle"
        /\ t \notin Range(tasks[s].targets)
        /\ \A k \in 1 .. Len(tasks[s].targets) : tasks[s].targets[k] < t

\* C12: when an analyzeAll or masterAll run completes, processing is false,
\* processingMessage is empty and processingProgress is 0, whatever happened
\* to the tracks; a run whose pending set is empty completes at once, issues
\* no remote call and changes no track.
Cleared(p, msg, prog) == p = FALSE /\ msg = NoMessage /\ prog = Zero

C12_CompletionClears ==
    [][ /\ \A s \in Slots :
              (IsBatch(tasks[s].kind) /\ tasks'[s].kind = "none") =>
                  Cleared(processing', processingMessage', processingProgress')
        /\ ((AnalyzeAll /\ PendingAnalyze = <<>>) \/ (MasterAll /\ PendingMaster = <<>>)) =>
              /\ Cleared(processing', processingMessage', processingProgress')
              /\ calls' = calls
              /\ heap' = heap
              /\ tasks' = tasks ]_vars

\* a run over the only track is waiting for its two calls, and a second run,
\* invoked meanwhile with nothing pending, has completed and cleared the
\* descriptors
C12_Witness ==
    \E s \in Slots :
        /\ tasks[s].kind = "analyzeAll"
        /\ Len(heap) = 1
        /\ Cardinality(Awaited(s, "analyze_file") \cup Awaited(s, "get_waveform_data")) = 2
        /\ started = 2
        /\ Cleared(processing, processingMessage, processingProgress)

\* C13: in every state in which an analyzeAll or masterAll run has started
\* and not yet completed, processing is true, whatever facade calls are made
\* while the run is in flight.
C13_ProcessingWhileBatchInFlight ==
    (\E s \in Slots : IsBatch(tasks[s].kind)) => processing = TRUE

\* C14: when master_file succeeds the result is stored and the track ends in
\* status done; with a post_analysis in the result, postAnalysis is set and
\* one waveform fetch for result.output_path is issued, whose failure leaves
\* status done, the result as it is and error null; without a post_analysis
\* no secondary fetch is issued.
C14_MasterSuccess ==
    [][ \A s \in Slots :
          LET t == Target(s)
              issued == { c \in calls' \ calls : c.cmd = "get_waveform_data" }
          IN  /\ (tasks[s].pc = "awaitMaster" /\ heap'[t].status = "done") =>
                    /\ heap'[t].result # Null
                    /\ heap'[t].error = Null
                    /\ IF heap'[t].result[1].post_analysis # Null
                       THEN /\ heap'[t].postAnalysis = heap'[t].result[1].post_analysis
                            /\ issued = { Invoke(s, t, "get_waveform_data",
                                                  heap'[t].result[1].output_path, Null) }
                            /\ tasks'[s].pc = "awaitPostWaveform"
                       ELSE /\ issued = {}
                            /\ heap'[t].postAnalysis = heap[t].postAnalysis
                            /\ heap'[t].postWaveform = heap[t].postWaveform
                            /\ tasks'[s].pc # "awaitPostWaveform"
              /\ tasks[s].pc = "awaitPostWaveform" =>
                    /\ heap[t].status = "done"
                    /\ heap'[t].status = "done"
                    /\ heap'[t].result = heap[t].result
                    /\ heap'[t].postAnalysis = heap[t].postAnalysis
                    /\ heap'[t].error = Null
                    /\ issued = {}
                    /\ Awaited(s, "get_waveform_data") =
                         { Invoke(s, t, "get_waveform_data",
                                  heap[t].result[1].output_path, Null) } ]_vars

\* the run is over and a track is done with its result and postAnalysis but
\* without a postWaveform: its secondary fetch has failed
C14_Witness ==
    /\ NoneInFlight
    /\ \E t \in InRegistry :
         /\ heap[t].status = "done"
         /\ heap[t].result # Null
         /\ heap[t].postAnalysis # Null
         /\ heap[t].postAnalysis = heap[t].result[1].post_analysis
         /\ heap[t].postWaveform = Null
         /\ heap[t].error = Null

\* C15: when master_file fails the track has status error and an error
\* message, and result, postAnalysis and postWaveform are what they were
\* before the call: the result of an earlier successful attempt stays.
KeepsOutcome(h, g, t) ==
    /\ g[t].result = h[t].result
    /\ g[t].postAnalysis = h[t].postAnalysis
    /\ g[t].postWaveform = h[t].postWaveform

C15_MasterFailure ==
    [][ \A s \in Slots :
          /\ tasks'[s].pc = "awaitMaster" =>
                KeepsOutcome(heap, heap', tasks'[s].targets[tasks'[s].i])
          /\ (tasks[s].pc = "awaitMaster" /\ heap'[Target(s)].status = "error") =>
                /\ heap'[Target(s)].error # Null
                /\ KeepsOutcome(heap, heap', Target(s)) ]_vars

\* a track that had been mastered was mastered again and that attempt has
\* failed: it is in error and still carries the earlier outcome
C15_Witness ==
    \E t \in InRegistry :
        /\ heap[t].status = "error"
        /\ heap[t].error = Some(<< "Mastering failed: ", "E1" >>)
        /\ heap[t].result # Null
        /\ heap[t].postAnalysis # Null
        /\ heap[t].postWaveform # Null

\* the master_file calls issued in a step
MasterIssued == { c \in calls' \ calls : c.cmd = "master_file" }

\* C17: in every request built, ai_provider is selectedProvider when
\* selectedBackend is "ai" and null for every other backend whatever the
\* provider; reference_path is null when no reference file is set (null or
\* the empty string) and referenceFile otherwise; input_path is the path of
\* the track.
RequestFields(r, path) ==
    /\ r.input_path = path
    /\ options.selectedBackend = "ai" => r.ai_provider = Some(options.selectedProvider)
    /\ options.selectedBackend # "ai" => r.ai_provider = Null
    /\ referenceFile \in { Null, Some(<<>>) } => r.reference_path = Null
    /\ referenceFile \notin { Null, Some(<<>>) } => r.reference_path = referenceFile

C17_RequestFields ==
    [][ /\ \A c \in MasterIssued : RequestFields(c.request[1], heap[c.track].path)
        /\ \A t \in Ids, o \in OutputArgs :
              RequestFields(buildRequest(heap[t], o), heap[t].path) ]_vars

\* a request in flight was built for the auto backend while a provider
\* other than the default is configured, and with no reference file: both
\* ai_provider and reference_path are null
C17_Witness ==
    \E c \in calls :
        /\ c.cmd = "master_file"
        /\ options.selectedBackend = "auto"
        /\ options.selectedProvider = "openai"
        /\ referenceFile = Some(<<>>)
        /\ c.request[1].backend = "auto"
        /\ c.request[1].ai_provider = Null
        /\ c.request[1].reference_path = Null
        /\ c.request[1].input_path = heap[c.track].path

\* C18: all master requests issued within one masterAll run carry the same
\* reference_path, however setReferenceFile and clearAll calls are
\* interleaved with the run.
C18_UniformReference ==
    \A s \in Slots :
        tasks[s].kind = "masterAll" =>
            \A j, k \in 1 .. Len(tasks[s].requests) :
                tasks[s].requests[j].reference_path = tasks[s].requests[k].reference_path

\* C19: the readiness flags are functions of the current registry alone:
\* hasTracks is true iff the registry is not empty, allAnalyzed iff it is not
\* empty and none of its tracks is idle or analyzing, hasAnyResult iff one
\* of its tracks is done.
StatusesInRegistry == { heap[t].status : t \in InRegistry }

C19_ReadinessFlags ==
    /\ hasTracks <=> tracks # <<>>
    /\ allAnalyzed <=> (tracks # <<>> /\ StatusesInRegistry \cap { "idle", "analyzing" } = {})
    /\ hasAnyResult <=> "done" \in StatusesInRegistry

\* a mastered track has been removed; the track left in the registry is
\* past its analysis and not done, so allAnalyzed holds and hasAnyResult
\* does not
C19_Witness ==
    /\ \E a \in Ids : a \notin InRegistry /\ heap[a].status = "done"
    /\ hasTracks
    /\ allAnalyzed
    /\ ~ hasAnyResult

\* C20: removeTrack(id) with an id that no track of the registry has is a
\* no-op: the track list, selectedTrackId and every other field of the state
\* stay as they are, also when selectedTrackId was set by selectTrack.
C20_RemoveAbsentIsNoOp ==
    [][ \A id \in IdValues(MaxId) :
          (id \notin InRegistry /\ removeTrack(id)) => UNCHANGED vars ]_vars

\* C21: track ids are unique and never reused: every track created by
\* addTracks gets an id greater than every id assigned before, also after
\* removeTrack or clearAll and when a removed path is imported again.
C21_IdsNeverReused ==
    [][ /\ Len(heap') >= Len(heap)
        /\ \A k \in 1 .. Len(heap) : heap'[k].id = heap[k].id
        /\ \A k \in (Len(heap) + 1) .. Len(heap') :
              /\ heap'[k].id > trackIdCounter
              /\ heap'[k].id <= trackIdCounter'
              /\ heap'[k].id \in Range(tracks')
              /\ \A j \in 1 .. (k - 1) : heap'[j].id < heap'[k].id
        /\ \A j, k \in 1 .. Len(tracks') :
              j # k => heap'[tracks'[j]].id # heap'[tracks'[k]].id
        /\ trackIdCounter' >= trackIdCounter ]_vars

\* after a clearAll the path of the first track was imported again: the
\* new track has the third id and the first track object still has id 1
C21_Witness ==
    /\ trackIdCounter = 3
    /\ tracks = << 3 >>
    /\ heap[3].id = 3
    /\ heap[3].path = heap[1].path
    /\ heap[1].id = 1

\* C22: addTracks, removeTrack, selectTrack and setReferenceFile leave
\* status, analysis, waveform, result, postAnalysis, postWaveform and error
\* of every track that stays in the registry as they are; these fields
\* change only in a step of analyzeTrack or masterTrack on that track.
Payload(tr) ==
    << tr.status, tr.analysis, tr.waveform, tr.result,
       tr.postAnalysis, tr.postWaveform, tr.error >>

RegistryStep ==
    \/ SelectListed
    \/ RemoveListed
    \/ SetReferenceFile
    \/ AddTracksSingle(BatchPaths, MaxOverlapId)

StageStepOn(t) ==
    \E s \in Slots :
        /\ tasks'[s] # tasks[s]
        /\ \/ tasks[s].kind # "none" /\ Target(s) = t
           \/ tasks'[s].kind # "none" /\ tasks'[s].targets[tasks'[s].i] = t

TwoTrackRun(s, kind) ==
    /\ tasks[s].kind = kind
    /\ tasks'[s].kind = "none"
    /\ tracks = << 1, 2 >>
    /\ tasks[s].targets = << 1, 2 >>
    /\ tasks[s].failed = {}

C23_Scenario ==
    [][ \A s \in Slots :
          /\ (TwoTrackRun(s, "analyzeAll") /\ ~ AnalyzeCallRejects(s)) =>
                /\ heap'[1].status = "analyzed"
                /\ heap'[2].status = "analyzed"
                /\ heap'[1].analysis # Null /\ heap'[1].waveform # Null
                /\ heap'[2].analysis # Null /\ heap'[2].waveform # Null
                /\ processingProgress' = Zero
                /\ processing' = FALSE
          /\ (TwoTrackRun(s, "masterAll") /\ MasterRejects(s)) =>
                /\ heap'[1].status = "done"
                /\ heap'[1].result # Null
                /\ heap'[2].status = "error"
                /\ heap'[2].error # Null
                /\ tracks' = << 1, 2 >>
                /\ heap'[1].path # heap'[2].path
                /\ processing' = FALSE ]_vars

\* the end of the scenario: both runs are over, the first track is done
\* and the second carries the error of its failed mastering
C23_Witness ==
    /\ NoneInFlight
    /\ calls = {}
    /\ ~ processing
    /\ processingProgress = Zero
    /\ Len(heap) = 2
    /\ tracks = << 1, 2 >>
    /\ heap[1].status = "done"
    /\ heap[1].result # Null
    /\ heap[1].analysis # Null
    /\ heap[2].status = "error"
    /\ heap[2].error = Some(<< "Mastering failed: ", "E1" >>)
    /\ heap[2].analysis # Null
    /\ heap[2].result = Null

\* C24: every attempt starts with a cleared error: in the step in which a
\* track becomes analyzing or mastering its error becomes null, and with
\* attempts that do not overlap a track that is analyzing or mastering has
\* error null.
InAttempt(st) == st \in { "analyzing", "mastering" }

C24_AttemptClearsError ==
    [][ \A t \in Ids :
          /\ (InAttempt(heap'[t].status) /\ heap'[t].status # heap[t].status) =>
                heap'[t].error = Null
          /\ InAttempt(heap[t].status) => heap[t].error = Null
          /\ InAttempt(heap'[t].status) => heap'[t].error = Null ]_vars

\* a track whose mastering had failed is analyzed again: it is analyzing,
\* still has the analysis of its first attempt, and its error is null
C24_Witness ==
    \E t \in InRegistry :
        /\ heap[t].status = "analyzing"
        /\ heap[t].analysis # Null
        /\ heap[t].error = Null

\* C25: removeTrack(id) of a track of the registry removes that track only
\* and keeps the order of the others; when the removed track was selected,
\* selectedTrackId becomes the id of the new first track, or null when the
\* registry is empty now; otherwise selectedTrackId stays.
C25_RemovePresent ==
    [][ \A id \in InRegistry :
          removeTrack(id) =>
            LET Other(x) == x # id IN
            /\ tracks' = SelectSeq(tracks, Other)
            /\ Len(tracks') = Len(tracks) - 1
            /\ selectedTrackId = id =>
                  selectedTrackId' = (IF tracks' = <<>> THEN NullId ELSE tracks'[1])
            /\ selectedTrackId # id => selectedTrackId' = selectedTrackId ]_vars

\* the second of three tracks was removed while the third was selected:
\* the first and the third are left in this order, the third still selected
C25_Witness ==
    /\ Len(heap) = 3
    /\ tracks = << 1, 3 >>
    /\ selectedTrackId = 3

\* C26: addTracks appends one track for every new distinct path at the end
\* of the registry, in the order of the argument, each with status idle and
\* analysis, waveform, result and error null, and leaves the tracks that
\* exist and their order as they are.
RECURSIVE FreshPaths(_, _)
FreshPaths(ps, known) ==
    IF ps = <<>> THEN <<>>
    ELSE IF Head(ps) \in known THEN FreshPaths(Tail(ps), known)
    ELSE << Head(ps) >> \o FreshPaths(Tail(ps), known \cup { Head(ps) })

C26_AddAppends ==
    [][ \A ps \in SeqsUpTo(Paths, MaxArgLen) :
          addTracks(ps, MaxId) =>
            LET fresh == FreshPaths(ps, { heap[t].path : t \in InRegistry })
                n == Len(tracks)
            IN  /\ Len(tracks') = n + Len(fresh)
                /\ SubSeq(tracks', 1, n) = tracks
                /\ \A t \in Ids : heap'[t] = heap[t]
                /\ \A k \in 1 .. Len(fresh) :
                      LET tr == heap'[tracks'[n + k]] IN
                      /\ tr.id = tracks'[n + k]
                      /\ tr.path = fresh[k]
                      /\ tr.status = "idle"
                      /\ tr.analysis = Null
                      /\ tr.waveform = Null
                      /\ tr.result = Null
                      /\ tr.error = Null ]_vars

\* the path of the removed first track was imported again: its new track
\* stands at the end of the registry, behind the track that was there
C26_Witness ==
    /\ Len(heap) = 3
    /\ tracks = << 2, 3 >>
    /\ heap[3].path = heap[1].path
    /\ heap[3].status = "idle"

\* C27: addTracks never changes a selectedTrackId that is not null; when
\* selectedTrackId was null and the registry is not empty after the call,
\* selectedTrackId becomes the id of the first track of the registry.
C27_AddKeepsSelection ==
    [][ \A ps \in SeqsUpTo(Paths, MaxArgLen) :
          addTracks(ps, MaxId) =>
            /\ selectedTrackId # NullId => selectedTrackId' = selectedTrackId
            /\ (selectedTrackId = NullId /\ tracks' # <<>>) =>
                  selectedTrackId' = tracks'[1] ]_vars

\* C28: clearAll leaves the registry empty, selectedTrackId null,
\* referenceFile null and state.error null, and changes nothing else: the
\* master options, processing, processingMessage, processingProgress and
\* the id counter keep their values.
C28_ClearAllFrame ==
    [][ clearAll =>
          /\ tracks' = <<>>
          /\ selectedTrackId' = NullId
          /\ referenceFile' = Null
          /\ stateError' = Null
          /\ options' = options
          /\ processing' = processing
          /\ processingMessage' = processingMessage
          /\ processingProgress' = processingProgress
          /\ trackIdCounter' = trackIdCounter
          /\ heap' = heap
          /\ tasks' = tasks
          /\ calls' = calls ]_vars

\* clearAll was called during a run: the registry is empty and no reference
\* file is set, the run goes on and its descriptors and the id counter are
\* as they were
C28_Witness ==
    /\ tracks = <<>>
    /\ selectedTrackId = NullId
    /\ referenceFile = Null
    /\ trackIdCounter = 2
    /\ processing
    /\ processingMessage # NoMessage
    /\ FracEq(processingProgress, << 50, 1 >>)
    /\ \E s \in Slots : IsBatch(tasks[s].kind)

\* C29: analyzeSelected and masterSelected act on the track selected at
\* invocation only: with no selected track they change nothing and issue no
\* remote call; otherwise they set processing and a processingMessage, make
\* one stage attempt on that track, then reset processing and the message,
\* and never write processingProgress.
IsSelectedKind(kind) == kind \in { "analyzeSelected", "masterSelected" }

C29_SelectedVariants ==
    [][ /\ ((AnalyzeSelected \/ MasterSelected) /\ selectedTrack = NullId) =>
              UNCHANGED << tracks, heap, trackIdCounter, selectedTrackId, referenceFile,
                           batchVars, options, tasks, calls >>
        /\ \A s \in Slots :
              /\ (tasks[s].kind = "none" /\ IsSelectedKind(tasks'[s].kind)) =>
                    /\ selectedTrack # NullId
                    /\ tasks'[s].targets = << selectedTrack >>
                    /\ tasks'[s].attempts = << selectedTrack >>
                    /\ \A c \in calls' \ calls : c.task = s /\ c.track = selectedTrack
                    /\ calls' # calls
                    /\ processing' = TRUE
                    /\ processingMessage' # NoMessage
                    /\ processingMessage'.name = heap[selectedTrack].name
                    /\ processingProgress' = processingProgress
              /\ (IsSelectedKind(tasks[s].kind) /\ tasks'[s] # tasks[s]) =>
                    /\ \A t \in Ids \ { Target(s) } : heap'[t] = heap[t]
                    /\ \A c \in calls' \ calls : c.task = s /\ c.track = Target(s)
                    /\ tasks'[s].kind # "none" => tasks'[s].targets = tasks[s].targets
                    /\ processingProgress' = processingProgress
                    /\ IF tasks'[s].kind = "none"
                       THEN /\ processing' = FALSE
                            /\ processingMessage' = NoMessage
                            /\ tasks[s].attempts = tasks[s].targets
                       ELSE /\ processing' = processing
                            /\ processingMessage' = processingMessage
                            /\ tasks'[s].attempts = tasks[s].attempts
        /\ (started' = 1 /\ \E s \in Slots : IsSelectedKind(tasks'[s].kind)) =>
              /\ processing' = TRUE
              /\ processingMessage' # NoMessage ]_vars

\* while analyzeAll works on one track, another track was imported,
\* selected and analysed by analyzeSelected: that call has come and gone,
\* processing and the message are reset, processingProgress still is the
\* value analyzeAll wrote and the track of analyzeAll is as it was
C29_Witness ==
    \E s \in Slots, t \in InRegistry :
        /\ tasks[s].kind = "analyzeAll"
        /\ tasks[s].pc = "awaitAnalyze"
        /\ tasks[s].gotAnalysis = Null
        /\ tasks[s].gotWaveform = Null
        /\ NoSelectedInFlight
        /\ t # Target(s)
        /\ t \notin Range(tasks[s].targets)
        /\ Len(tracks) = 2
        /\ heap[t].status = "analyzed"
        /\ heap[Target(s)].status = "analyzing"
        /\ heap[Target(s)].analysis = Null
        /\ started = 2
        /\ processing = FALSE
        /\ processingMessage = NoMessage
        /\ FracEq(processingProgress, << 100, 1 >>)

\* C30: every master_file request issued by masterAll has output_path null;
\* the request issued by masterSelected(outputPath) has output_path equal to
\* the given path, and null when no path or the empty path is given.
MasterCallsOf(cs, s) == { c \in cs : c.task = s /\ c.cmd = "master_file" }

C30_OutputPath ==
    [][ \A s \in Slots :
          /\ tasks'[s].kind = "masterAll" =>
                \A c \in MasterCallsOf(calls' \ calls, s) :
                    c.request[1].output_path = Null
          /\ \A o \in OutputArgs :
                ( /\ tasks[s].kind = "none"
                  /\ selectedTrack # NullId
                  /\ masterSelected(s, o) ) =>
                    /\ MasterCallsOf(calls' \ calls, s) # {}
                    /\ \A c \in MasterCallsOf(calls' \ calls, s) :
                          /\ c.track = selectedTrack
                          /\ c.request[1].output_path =
                                IF o = Null \/ o = Some(<<>>) THEN Null ELSE o ]_vars

\* masterSelected was called with no path or with the empty path on a track
\* that was mastered before: the request in flight carries null
C30_Witness ==
    \E s \in Slots, c \in calls :
        /\ tasks[s].kind = "masterSelected"
        /\ c \in MasterCallsOf(calls, s)
        /\ c.request[1].output_path = Null
        /\ heap[c.track].result # Null

\* C31: when every remote call eventually resolves or rejects, a started
\* analyzeAll or masterAll run eventually completes and processing becomes
\* false, every track eventually leaves analyzing / mastering, and the only
\* step that ends a run is taken when every track of its pending set has
\* been attempted, in order.
InStage(t) == t <= Len(heap) /\ heap[t].status \in { "analyzing", "mastering" }

C31_BatchTerminates ==
    /\ \A s \in 1 .. MaxTasks :
          IsBatch(tasks[s].kind) ~> (tasks[s].kind = "none" /\ processing = FALSE)
    /\ \A t \in 1 .. MaxOverlapId : InStage(t) ~> ~ InStage(t)
    /\ [][ \A s \in 1 .. MaxTasks :
              (IsBatch(tasks[s].kind) /\ tasks'[s].kind # tasks[s].kind) =>
                  /\ tasks'[s].kind = "none"
                  /\ tasks[s].attempts = tasks[s].targets
                  /\ tasks[s].i = Len(tasks[s].targets)
                  /\ processing' = FALSE ]_vars

\* the last iteration of a masterAll run over two tracks, the first of
\* which has failed
C31_Witness ==
    \E s \in Slots :
        /\ tasks[s].kind = "masterAll"
        /\ Len(tasks[s].targets) = 2
        /\ tasks[s].attempts = tasks[s].targets
        /\ tasks[s].targets[1] \in tasks[s].failed
        /\ tasks[s].pc = "awaitPostWaveform"

\* C32: when operations do not overlap on a track and the engine returns
\* non-null payloads, a track with status analyzed has an analysis and a
\* waveform, a track with status done has a result, a track with a
\* postWaveform has a postAnalysis and a track with a postAnalysis has a
\* result.
C32_PayloadConsistency ==
    \A t \in Ids :
        /\ heap[t].status = "analyzed" =>
              heap[t].analysis # Null /\ heap[t].waveform # Null
        /\ heap[t].status = "done" => heap[t].result # Null
        /\ heap[t].postWaveform # Null => heap[t].postAnalysis # Null
        /\ heap[t].postAnalysis # Null => heap[t].result # Null

\* a track that was analyzed and mastered and has every payload
C32_Witness ==
    \E t \in InRegistry :
        /\ heap[t].status = "done"
        /\ heap[t].analysis # Null
        /\ heap[t].waveform # Null
        /\ heap[t].result # Null
        /\ heap[t].postAnalysis # Null
        /\ heap[t].postWaveform # Null

\* C33: when operations never overlap on a track, the error of a track is
\* non-null exactly when its status is error, also after analyze and master
\* attempts have been repeated on it.
C33_ErrorIffStatusError ==
    \A t \in Ids : (heap[t].error # Null) <=> (heap[t].status = "error")

\* a track that was mastered successfully is mastered again after a failed
\* attempt: it is in stage mastering with its error cleared
C33_Witness ==
    \E t \in InRegistry, s \in Slots :
        /\ tasks[s].kind = "masterAll"
        /\ tasks[s].targets = << t >>
        /\ heap[t].status = "mastering"
        /\ heap[t].result # Null
        /\ heap[t].error = Null

\* C34: the post-mastering fields belong to the current result of the
\* track: a non-null postAnalysis is the post_analysis of the stored result,
\* and a non-null postWaveform was fetched for the stored result, which is
\* only done for a result that has a post_analysis.
C34_PostFieldsOfCurrentResult ==
    \A t \in Ids :
        /\ heap[t].postAnalysis # Null =>
              /\ heap[t].result # Null
              /\ heap[t].result[1].post_analysis = heap[t].postAnalysis
        /\ heap[t].postWaveform # Null =>
              /\ heap[t].result # Null
              /\ heap[t].result[1].post_analysis # Null

\* C35: a master_file request of a masterAll run is only outstanding for a
\* track that was analyzed successfully, that is, whose analysis payload is
\* non-null.
C35_MasterAllOnlyAnalyzed ==
    \A c \in calls :
        (c.cmd = "master_file" /\ tasks[c.task].kind = "masterAll") =>
            heap[c.track].analysis # Null

\* C36: removeTrack and clearAll during a batch run leave the run as it is:
\* the removal writes nothing of the run, the run keeps its pending set and
\* attempts every track of it in order with progress k / N for the N of
\* its invocation, it completes with processing false, and no step of the
\* run writes the registry or the selection.
C36_RemovalLeavesRun ==
    [][ \A s \in Slots :
          LET tk == tasks[s]
              nx == tasks'[s]
              n == Len(tk.targets)
          IN  /\ (IsBatch(tk.kind) /\ Len(tracks') < Len(tracks)) =>
                    /\ tasks' = tasks
                    /\ calls' = calls
                    /\ heap' = heap
                    /\ UNCHANGED << processing, processingMessage, processingProgress >>
              /\ (IsBatch(tk.kind) /\ nx # tk) =>
                    /\ tracks' = tracks
                    /\ selectedTrackId' = selectedTrackId
                    /\ IF nx.kind = "none"
                       THEN /\ tk.attempts = tk.targets
                            /\ Len(tk.progress) = n
                            /\ \A k \in 1 .. n : tk.progress[k] = Fraction(k, n)
                            /\ processing' = FALSE
                       ELSE /\ nx.kind = tk.kind
                            /\ nx.targets = tk.targets
                            /\ nx.i = tk.i + 1 =>
                                  /\ nx.attempts = Append(tk.attempts, tk.targets[nx.i])
                                  /\ processingProgress' = Fraction(nx.i, n)
                                  /\ heap'[tk.targets[nx.i]].status \in
                                        { "analyzing", "mastering" } ]_vars

\* the registry was emptied during a run over two tracks, which is now
\* attempting its second track
C36_Witness ==
    \E s \in Slots :
        /\ IsBatch(tasks[s].kind)
        /\ Len(tasks[s].targets) = 2
        /\ tasks[s].i = 2
        /\ tracks = <<>>
        /\ selectedTrackId = NullId
        /\ heap[tasks[s].targets[2]].status \in { "analyzing", "mastering" }
        /\ FracEq(processingProgress, << 100, 1 >>)

\* C37: through the handlers of MainLayout no batch operation is started
\* while processing is true, at most one batch run is in flight, and no
\* track has outstanding calls of two operations.
BatchInFlight == { s \in Slots : IsBatch(tasks[s].kind) }
NoSharedTrack ==
    \A c, d \in calls : (c.awaited /\ d.awaited /\ c.track = d.track) => c.task = d.task

C37_LayoutNeverOverlaps ==
    /\ [][ ( \/ started' # started
              \/ \E s \in Slots : tasks[s].kind = "none" /\ IsBatch(tasks'[s].kind) )
            => processing = FALSE ]_vars
    /\ [] (Cardinality(BatchInFlight) <= 1)
    /\ [] NoSharedTrack

====
